---- MODULE Spec2Model ----
(***************************************************************************)
(* TripleBuffer<T> (src/src/TripleBuffer.hxx): one writer thread and one   *)
(* reader thread sharing three slots and one atomic flag byte.             *)
(*                                                                         *)
(* Granularity: every atomic access of `flags` (load, compare_exchange)    *)
(* is one step; the plain copy of a T into or out of a slot is NOT atomic  *)
(* and is modelled word by word (a T is two words wide here), so that a    *)
(* read overlapping a write yields a torn value.                           *)
(*                                                                         *)
(* Specifications: Spec (the two threads, history recorded), StrongCasSpec *)
(* (the same without spurious CAS failure), LiveSpec and WriterFairSpec    *)
(* (fair scheduling, the writer calling for ever), FlipSpec (flipWriter()  *)
(* on every byte), TwoWritersSpec and MisuseSpec (a second thread on the   *)
(* writer or the reader side, against the interface's precondition).       *)
(***************************************************************************)
EXTENDS Integers, Sequences, FiniteSets, TLC

\* ---------------------------------------------------------------- bounds
\* Writer calls (write, flipWriter, update) numbered in the history.
MaxCalls == 3

\* The values of the element type T (int in TestTripleBuffer.cpp).  The code
\* copies a T and never inspects one, so two values are enough to tell two
\* writes apart; 0 is also T(), the default constructor's value.
Values == {0, 1}
\* T buffer[3]
Slots == {0, 1, 2}

\* ---------------------------------------------------------- bit arithmetic
\* uint_fast8_t: 8 bits.
Width == 256

\* bit k of x, given p = 2^k
Bit(x, p) == (x \div p) % 2

\* a & b on bytes, bit by bit
And(a, b) ==
      Bit(a, 1) * Bit(b, 1)
    + Bit(a, 2) * Bit(b, 2) * 2
    + Bit(a, 4) * Bit(b, 4) * 4
    + Bit(a, 8) * Bit(b, 8) * 8
    + Bit(a, 16) * Bit(b, 16) * 16
    + Bit(a, 32) * Bit(b, 32) * 32
    + Bit(a, 64) * Bit(b, 64) * 64
    + Bit(a, 128) * Bit(b, 128) * 128

\* a | b on bytes: the bits of a, the bits of b, the common ones once
Or(a, b) == a + b - And(a, b)

\* a << n and a >> n on bytes
Shl(a, n) == (a * (2^n)) % Width
Shr(a, n) == a \div (2^n)

\* ------------------------------------------------------- flag word fields
\* newWrite   = (flags & 0x40)
\* dirtyIndex = (flags & 0x30) >> 4
\* cleanIndex = (flags & 0xC) >> 2
\* snapIndex  = (flags & 0x3)
snapIndex(f) == And(f, 3)
cleanIndex(f) == Shr(And(f, 12), 2)
dirtyIndex(f) == Shr(And(f, 48), 4)

\* Mutant: the indexes stored the other way round, dirty = 2 and snap = 0.
flagsInit_reversed == Shl(2, 4) + Shl(1, 2)

\* flags.store(0x6): initially dirty = 0, clean = 1 and snap = 2
flagsInit == 6

\* Mutant: the test is inverted, (flags & 0x40) == 0.
isNewWrite_not(f) == And(f, 64) = 0

\* Mutant: the test reads bit 4 (0x10) instead of bit 6.
isNewWrite_bit4(f) == And(f, 16) # 0

\* (flags & 0x40) != 0
isNewWrite(f) == And(f, 64) # 0

\* Mutant: the clean field is not moved down, the old snap index stays.
swapSnapWithClean_noShift(f) ==
    Or(Or(And(f, 48), Shl(And(f, 3), 2)), And(f, 3))

\* Mutant: newWrite is cleared but the two indexes are not swapped.
swapSnapWithClean_keep(f) == And(f, 63)

\* Mutant: snap is swapped with dirty instead of clean.
swapSnapWithClean_dirty(f) ==
    Or(Or(And(f, 12), Shl(And(f, 3), 4)), Shr(And(f, 48), 4))

\* Mutant: the two indexes are swapped and newWrite is kept.
swapSnapWithClean_keepBit(f) ==
    Or(Or(And(f, 112), Shl(And(f, 3), 2)), Shr(And(f, 12), 2))

\* (flags & 0x30) | ((flags & 0x3) << 2) | ((flags & 0xC) >> 2)
swapSnapWithClean(f) ==
    Or(Or(And(f, 48), Shl(And(f, 3), 2)), Shr(And(f, 12), 2))

\* Mutant: dirty is swapped with snap instead of clean.
newWriteSwapCleanWithDirty_snap(f) ==
    Or(Or(Or(64, Shl(And(f, 3), 4)), And(f, 12)), Shr(And(f, 48), 4))

\* Mutant: the newWrite bit is not set.
newWriteSwapCleanWithDirty_noBit(f) ==
    Or(Or(Shl(And(f, 12), 2), Shr(And(f, 48), 2)), And(f, 3))

\* Mutant: newWrite is set but clean and dirty are not swapped.
newWriteSwapCleanWithDirty_noSwap(f) == Or(64, And(f, 63))

\* Mutant: newWrite is copied from the old word, (flags & 0x40), not set.
newWriteSwapCleanWithDirty_keepBit(f) ==
    Or(Or(Or(And(f, 64), Shl(And(f, 12), 2)), Shr(And(f, 48), 2)), And(f, 3))

\* Mutant: the old dirty index is not moved down, the clean field stays.
newWriteSwapCleanWithDirty_noShift(f) ==
    Or(Or(Or(64, Shl(And(f, 12), 2)), And(f, 12)), And(f, 3))

\* 0x40 | ((flags & 0xC) << 2) | ((flags & 0x30) >> 2) | (flags & 0x3)
newWriteSwapCleanWithDirty(f) ==
    Or(Or(Or(64, Shl(And(f, 12), 2)), Shr(And(f, 48), 2)), And(f, 3))

\* ------------------------------------------------------------------ state
VARIABLES
    flags,        \* atomic_uint_fast8_t flags
    buffer,       \* T buffer[3]; each T is two words <<w1, w2>>
    init,         \* the constructor's argument (T() for the default one)
    \* writer thread
    wpc,          \* position of the writer
    wOp,          \* the writer's current / last call
    newT,         \* argument of write / update
    wIdx,         \* the slot index write() computed from its load
    wFlagsNow,    \* flipWriter's local flagsNow
    wNewFlags,    \* flipWriter's local newFlags
    \* reader thread
    rpc,          \* position of the reader
    rOp,          \* the reader's current / last call
    rIdx,         \* the slot index snap() computed from its load
    rFlagsNow,    \* newSnap's local flagsNow
    rNewFlags,    \* newSnap's local newFlags
    snapRet,      \* value returned by the last snap(): <<w1, w2>>
    newSnapRet,   \* value returned by the last newSnap()
    \* history (not program state)
    recording,    \* the history below is being recorded
    wCalls,       \* number of writer calls started; a write's number
    stamp,        \* per slot and word: number of the write that stored it
    snapStamp,    \* write numbers of the two words of snapRet
    published,    \* write numbers of the slots a successful flip made clean
    everFlipped,  \* some flipWriter CAS has succeeded
    wroteSinceFlip, \* a write() completed since the last successful flip
    bareFlip,     \* some flip succeeded with no write() since the one before
    lastUpd,      \* number of the last write that was then published
    retSinceClaim,\* what snap() returned since the last successful claim:
                  \* <<>>, <<the first>> or <<the first, the latest>>
    rQuiet,       \* the writer was idle after an update() when the reader
                  \* last entered newSnap() / readLast(), and has not
                  \* called since
    rStartUpd,    \* lastUpd when the reader's call was invoked
    flipSinceClaim, \* a flipWriter CAS has succeeded since the last
                  \* successful newSnap CAS (or since construction)
    pubNo,        \* per slot: number of the writer call whose successful
                  \* flip last made the slot clean; 0 if none has
    retNo,        \* pubNo of the slot the last snap() returned
    retW,         \* number of the write whose value the last snap() returned
    wFails,       \* failed CAS attempts (word found different) of the
                  \* flipWriter() in progress
    \* a second thread calling writer-side operations (misuse)
    w2pc,         \* its position; "off" when there is no such thread
    w2T,          \* the argument of its write()
    w2Idx,        \* the slot index its write() computed
    w2FlagsNow,   \* its flipWriter's local flagsNow
    w2NewFlags,   \* its flipWriter's local newFlags
    \* a second thread calling reader-side operations (misuse)
    r2pc,         \* its position; "off" when there is no such thread
    r2Idx,        \* the slot index its snap() computed
    r2FlagsNow,   \* its newSnap's local flagsNow
    r2NewFlags,   \* its newSnap's local newFlags
    r2Ret,        \* value returned by its last snap(): <<w1, w2>>
    \* history of the two writer threads
    wStale,       \* the second writer thread's flipWriter CAS has succeeded
                  \* since the write() in progress loaded its index
    w2Stale       \* the same for the second thread's write() in progress
                  \* and the first thread's flipWriter CAS

progVars == <<flags, buffer, init, wpc, wOp, newT, wIdx, wFlagsNow, wNewFlags,
              rpc, rOp, rIdx, rFlagsNow, rNewFlags, snapRet, newSnapRet>>
histVars == <<recording, wCalls, stamp, snapStamp, published, everFlipped, wroteSinceFlip,
              bareFlip, lastUpd, retSinceClaim, rQuiet, rStartUpd,
              flipSinceClaim, pubNo, retNo, retW, wFails>>
writer2Vars == <<w2pc, w2T, w2Idx, w2FlagsNow, w2NewFlags>>
reader2Vars == <<r2pc, r2Idx, r2FlagsNow, r2NewFlags, r2Ret>>
staleHist == <<wStale, w2Stale>>
vars == <<progVars, histVars, writer2Vars, reader2Vars, staleHist>>

writerVars == <<wpc, wOp, newT, wIdx, wFlagsNow, wNewFlags>>
readerVars == <<rpc, rOp, rIdx, rFlagsNow, rNewFlags, snapRet, newSnapRet>>
writerHist == <<wCalls, stamp, published, everFlipped, wroteSinceFlip,
                bareFlip, lastUpd>>
readerHist == <<snapStamp, retSinceClaim, rQuiet, rStartUpd>>
\* the history of the flips and claims
flipHist == <<flipSinceClaim, pubNo, retNo, retW, wFails>>

\* what the history records, and what it keeps when it is off
Rec(new, old) == IF recording THEN new ELSE old

\* ------------------------------------------------------------ construction
\* The members and the threads' locals after construction, the flag word
\* being f; the history is recorded or not.
Members(rec, f) ==
    /\ recording = rec
    /\ init \in Values
    /\ buffer = [i \in Slots |-> <<init, init>>]
    /\ flags = f
    /\ wpc = "idle" /\ wOp = "none" /\ newT = 0 /\ wIdx = 0
    /\ wFlagsNow = 0 /\ wNewFlags = 0
    /\ rpc = "idle" /\ rOp = "none" /\ rIdx = 0
    /\ rFlagsNow = 0 /\ rNewFlags = 0
    /\ snapRet = <<0, 0>> /\ newSnapRet = FALSE
    /\ wCalls = 0
    /\ stamp = [i \in Slots |-> <<0, 0>>]
    /\ snapStamp = <<0, 0>>
    /\ published = {}
    /\ everFlipped = FALSE
    /\ wroteSinceFlip = FALSE
    /\ bareFlip = FALSE
    /\ lastUpd = 0
    /\ retSinceClaim = <<>>
    /\ rQuiet = FALSE
    /\ rStartUpd = 0
    /\ flipSinceClaim = FALSE
    /\ pubNo = [i \in Slots |-> 0]
    /\ retNo = 0
    /\ retW = 0
    /\ wFails = 0

\* TripleBuffer() with dummy = T() = 0, or TripleBuffer(init):
\* flags.store(0x6)
Construct(rec) == Members(rec, flagsInit)

\* one writer thread and one reader thread: no second thread on either side
Threads(w2, r2) ==
    /\ w2pc = w2 /\ w2T = 0 /\ w2Idx = 0 /\ w2FlagsNow = 0 /\ w2NewFlags = 0
    /\ r2pc = r2 /\ r2Idx = 0 /\ r2FlagsNow = 0 /\ r2NewFlags = 0
    /\ r2Ret = <<0, 0>>
    /\ wStale = FALSE
    /\ w2Stale = FALSE

SingleThreads == Threads("off", "off")

Init == Construct(TRUE) /\ SingleThreads

\* ------------------------------------------------------------ writer thread
\* Locals that go out of scope when a call returns are set back to 0.
\*
\* A writer call is entered from idle; entering is local to the thread and
\* is taken together with the call's first access of `flags`.  While the
\* history is recorded the call is numbered and the number of calls is
\* capped at MaxCalls; otherwise the writer may call for ever.
WriterEnter(op, v) ==
    /\ wpc = "idle"
    /\ recording => wCalls < MaxCalls
    /\ wCalls' = Rec(wCalls + 1, wCalls)
    /\ wOp' = op
    /\ newT' = v
    /\ UNCHANGED <<flags, buffer, init>>
    /\ UNCHANGED <<stamp, published, everFlipped, wroteSinceFlip, bareFlip,
                   lastUpd>>
    /\ rQuiet' = FALSE
    /\ UNCHANGED <<recording, readerVars, snapStamp, retSinceClaim, rStartUpd>>
    /\ UNCHANGED <<flipHist, writer2Vars, reader2Vars, staleHist>>

\* Mutant: write() takes the snap index, flags & 0x3.
WriteLoad_snap ==
    /\ wIdx' = And(flags, 3)
    /\ wpc' = "write_store1"
    /\ UNCHANGED <<wFlagsNow, wNewFlags>>

\* Mutant: write() takes the clean index, (flags & 0xC) >> 2.
WriteLoad_clean ==
    /\ wIdx' = Shr(And(flags, 12), 2)
    /\ wpc' = "write_store1"
    /\ UNCHANGED <<wFlagsNow, wNewFlags>>

\* write(): (flags.load(consume) & 0x30) >> 4  -- the index of the dirty slot
WriteLoad ==
    /\ wIdx' = Shr(And(flags, 48), 4)
    /\ wpc' = "write_store1"
    /\ UNCHANGED <<wFlagsNow, wNewFlags>>

\* flipWriter(): flagsNow = flags.load(consume);
\*               newFlags = newWriteSwapCleanWithDirty(flagsNow);
FlipLoad ==
    /\ wFlagsNow' = flags
    /\ wNewFlags' = newWriteSwapCleanWithDirty(flags)
    /\ wpc' = "flip_cas"
    /\ UNCHANGED wIdx

\* void write(const T newT)
write(v) == WriterEnter("write", v) /\ WriteLoad

\* void update(T newT) { write(newT); flipWriter(); }
update(v) == WriterEnter("update", v) /\ WriteLoad

\* void flipWriter()
flipWriter == WriterEnter("flipWriter", 0) /\ FlipLoad

\* write(): buffer[index] = newT, first word of the copy
write_store1 ==
    /\ wpc = "write_store1"
    /\ buffer' = [buffer EXCEPT ![wIdx][1] = newT]
    /\ stamp' = Rec([stamp EXCEPT ![wIdx][1] = wCalls], stamp)
    /\ wpc' = "write_store2"
    /\ UNCHANGED <<flags, init, wOp, newT, wIdx, wFlagsNow, wNewFlags>>
    /\ UNCHANGED <<recording, wCalls, published, everFlipped, wroteSinceFlip,
                   bareFlip, lastUpd>>
    /\ UNCHANGED <<readerVars, readerHist>>
    /\ UNCHANGED <<flipHist, writer2Vars, reader2Vars, staleHist>>

\* write(): buffer[index] = newT, second word of the copy; write() returns,
\* and update() goes on to flipWriter()
write_store2 ==
    /\ wpc = "write_store2"
    /\ buffer' = [buffer EXCEPT ![wIdx][2] = newT]
    /\ stamp' = Rec([stamp EXCEPT ![wIdx][2] = wCalls], stamp)
    /\ wroteSinceFlip' = Rec(TRUE, wroteSinceFlip)
    /\ wIdx' = 0
    /\ wpc' = IF wOp = "update" THEN "flip_load" ELSE "idle"
    /\ UNCHANGED <<flags, init, wOp, newT, wFlagsNow, wNewFlags>>
    /\ UNCHANGED <<recording, wCalls, published, everFlipped, bareFlip, lastUpd>>
    /\ UNCHANGED <<readerVars, readerHist>>
    /\ wStale' = FALSE
    /\ UNCHANGED <<flipHist, writer2Vars, reader2Vars, w2Stale>>

\* flipWriter(): the load at the head of the do-while loop, in update() and
\* after a failed compare_exchange_weak
flipWriter_load ==
    /\ wpc = "flip_load"
    /\ FlipLoad
    /\ UNCHANGED <<flags, buffer, init, wOp, newT>>
    /\ UNCHANGED <<recording, writerHist, readerVars, readerHist>>
    /\ UNCHANGED <<flipHist, writer2Vars, reader2Vars, staleHist>>

\* flipWriter(): compare_exchange_weak(flagsNow, newFlags) succeeds
flipWriter_cas_ok ==
    /\ wpc = "flip_cas"
    /\ flags = wFlagsNow
    /\ flags' = wNewFlags
    /\ wpc' = "idle"
    /\ wFlagsNow' = 0
    /\ wNewFlags' = 0
    /\ published' = Rec(published \cup {stamp[dirtyIndex(flags)][1]}, published)
    /\ everFlipped' = Rec(TRUE, everFlipped)
    /\ bareFlip' = Rec(bareFlip \/ ~wroteSinceFlip, bareFlip)
    /\ lastUpd' = IF wroteSinceFlip THEN stamp[dirtyIndex(flags)][1]
                                    ELSE lastUpd
    /\ wroteSinceFlip' = FALSE
    /\ UNCHANGED <<buffer, init, wOp, newT, wIdx>>
    /\ UNCHANGED <<recording, wCalls, stamp>>
    /\ UNCHANGED <<readerVars, readerHist>>
    /\ flipSinceClaim' = Rec(TRUE, flipSinceClaim)
    /\ pubNo' = Rec([pubNo EXCEPT ![dirtyIndex(flags)] = wCalls], pubNo)
    /\ wFails' = 0
    /\ UNCHANGED <<retNo, retW>>
    /\ w2Stale' = (w2pc \in {"write_store1", "write_store2"})
    /\ UNCHANGED <<writer2Vars, reader2Vars, wStale>>

\* Mutant: after a failed compare_exchange_weak the loop tries the exchange
\* again with the flagsNow and newFlags it had, without loading.
flipWriter_cas_fail_spin ==
    /\ wpc = "flip_cas"
    /\ flags # wFlagsNow
    /\ wpc' = "flip_cas"
    /\ UNCHANGED <<flags, buffer, init, wOp, newT, wIdx, wFlagsNow, wNewFlags>>
    /\ UNCHANGED <<recording, writerHist, readerVars, readerHist>>
    /\ wFails' = Rec(wFails + 1, wFails)
    /\ UNCHANGED <<flipSinceClaim, pubNo, retNo, retW>>
    /\ UNCHANGED <<writer2Vars, reader2Vars, staleHist>>

\* flipWriter(): compare_exchange_weak finds another word: it stores that
\* word into flagsNow, returns false, and the loop loads again
flipWriter_cas_fail ==
    /\ wpc = "flip_cas"
    /\ flags # wFlagsNow
    /\ wFlagsNow' = flags
    /\ wpc' = "flip_load"
    /\ UNCHANGED <<flags, buffer, init, wOp, newT, wIdx, wNewFlags>>
    /\ UNCHANGED <<recording, writerHist, readerVars, readerHist>>
    /\ wFails' = Rec(wFails + 1, wFails)
    /\ UNCHANGED <<flipSinceClaim, pubNo, retNo, retW>>
    /\ UNCHANGED <<writer2Vars, reader2Vars, staleHist>>

\* flipWriter(): compare_exchange_weak fails spuriously on the expected word
flipWriter_cas_spurious ==
    /\ wpc = "flip_cas"
    /\ flags = wFlagsNow
    /\ wpc' = "flip_load"
    /\ UNCHANGED <<flags, buffer, init, wOp, newT, wIdx, wFlagsNow, wNewFlags>>
    /\ UNCHANGED <<recording, writerHist, readerVars, readerHist>>
    /\ UNCHANGED <<flipHist, writer2Vars, reader2Vars, staleHist>>

\* ------------------------------------------------------------ reader thread
\* A result the caller no longer holds (the previous call's return value) is
\* set back to 0 / FALSE when the next call is entered.
\* A reader call is entered from idle, together with its first access of
\* `flags`.
ReaderEnter(op) ==
    /\ rpc = "idle"
    /\ rOp' = op
    /\ UNCHANGED <<flags, buffer, init, writerVars, recording, writerHist>>
    /\ UNCHANGED <<writer2Vars, reader2Vars, staleHist>>

\* where the reader goes when newSnap() returns
AfterNewSnap(op) == IF op = "readLast" THEN "snap_load" ELSE "idle"

\* Mutant: no isNewWrite test, the swap is always attempted.
NewSnapLoad_always(op) ==
    /\ rFlagsNow' = flags
    /\ rNewFlags' = swapSnapWithClean(flags)
    /\ rpc' = "newSnap_cas"
    /\ snapRet' = <<0, 0>>
    /\ snapStamp' = <<0, 0>>
    /\ UNCHANGED <<newSnapRet, rIdx, retSinceClaim>>

\* newSnap(): flagsNow = flags.load(consume);
\*            if (!isNewWrite(flagsNow)) return false;
\*            newFlags = swapSnapWithClean(flagsNow);
NewSnapLoad(op) ==
    /\ IF ~isNewWrite(flags)
       THEN /\ newSnapRet' = FALSE
            /\ rpc' = AfterNewSnap(op)
            /\ rFlagsNow' = 0
            /\ rNewFlags' = 0
       ELSE /\ rFlagsNow' = flags
            /\ rNewFlags' = swapSnapWithClean(flags)
            /\ rpc' = "newSnap_cas"
            /\ UNCHANGED newSnapRet
    /\ snapRet' = <<0, 0>>
    /\ snapStamp' = <<0, 0>>
    /\ UNCHANGED <<rIdx, retSinceClaim>>

\* Mutant: snap() takes the dirty index, (flags & 0x30) >> 4.
SnapLoad_dirty ==
    /\ rIdx' = Shr(And(flags, 48), 4)
    /\ rpc' = "snap_read1"
    /\ snapRet' = <<0, 0>>
    /\ snapStamp' = <<0, 0>>
    /\ newSnapRet' = FALSE
    /\ UNCHANGED <<rFlagsNow, rNewFlags, retSinceClaim>>

\* Mutant: snap() takes the clean index, (flags & 0xC) >> 2.
SnapLoad_clean ==
    /\ rIdx' = Shr(And(flags, 12), 2)
    /\ rpc' = "snap_read1"
    /\ snapRet' = <<0, 0>>
    /\ snapStamp' = <<0, 0>>
    /\ newSnapRet' = FALSE
    /\ UNCHANGED <<rFlagsNow, rNewFlags, retSinceClaim>>

\* snap(): flags.load(consume) & 0x3  -- the index of the snap slot
SnapLoad ==
    /\ rIdx' = And(flags, 3)
    /\ rpc' = "snap_read1"
    /\ snapRet' = <<0, 0>>
    /\ snapStamp' = <<0, 0>>
    /\ newSnapRet' = FALSE
    /\ UNCHANGED <<rFlagsNow, rNewFlags, retSinceClaim>>

\* T snap() const.  It continues the read sequence that the last newSnap()
\* or readLast() began.
snap ==
    /\ ReaderEnter("snap")
    /\ SnapLoad
    /\ rStartUpd' = 0
    /\ UNCHANGED rQuiet
    /\ UNCHANGED flipHist

\* bool newSnap()
newSnap ==
    /\ ReaderEnter("newSnap")
    /\ NewSnapLoad("newSnap")
    /\ rQuiet' = Rec(wpc = "idle" /\ wOp = "update", rQuiet)
    /\ rStartUpd' = lastUpd
    /\ UNCHANGED flipHist

\* T readLast() { newSnap(); return snap(); }
readLast ==
    /\ ReaderEnter("readLast")
    /\ NewSnapLoad("readLast")
    /\ rQuiet' = Rec(wpc = "idle" /\ wOp = "update", rQuiet)
    /\ rStartUpd' = lastUpd
    /\ UNCHANGED flipHist

\* newSnap(): the load at the head of the do-while loop after a failed
\* compare_exchange_weak
newSnap_load ==
    /\ rpc = "newSnap_load"
    /\ NewSnapLoad(rOp)
    /\ UNCHANGED <<flags, buffer, init, rOp>>
    /\ UNCHANGED <<rQuiet, rStartUpd>>
    /\ UNCHANGED <<writerVars, recording, writerHist>>
    /\ UNCHANGED <<flipHist, writer2Vars, reader2Vars, staleHist>>

\* newSnap(): compare_exchange_weak(flagsNow, newFlags) succeeds; return true
newSnap_cas_ok ==
    /\ rpc = "newSnap_cas"
    /\ flags = rFlagsNow
    /\ flags' = rNewFlags
    /\ newSnapRet' = TRUE
    /\ rpc' = AfterNewSnap(rOp)
    /\ rFlagsNow' = 0
    /\ rNewFlags' = 0
    /\ retSinceClaim' = Rec(<<>>, retSinceClaim)
    /\ UNCHANGED <<buffer, init, rOp, rIdx, snapRet>>
    /\ UNCHANGED <<snapStamp, rQuiet, rStartUpd>>
    /\ UNCHANGED <<writerVars, recording, writerHist>>
    /\ flipSinceClaim' = Rec(FALSE, flipSinceClaim)
    /\ UNCHANGED <<pubNo, retNo, retW, wFails>>
    /\ UNCHANGED <<writer2Vars, reader2Vars, staleHist>>

\* Mutant: after a failed compare_exchange_weak the loop tries the exchange
\* again with the flagsNow and newFlags it had, without loading.
newSnap_cas_fail_spin ==
    /\ rpc = "newSnap_cas"
    /\ flags # rFlagsNow
    /\ rpc' = "newSnap_cas"
    /\ UNCHANGED <<flags, buffer, init, rOp, rIdx, rFlagsNow, rNewFlags,
                   snapRet, newSnapRet>>
    /\ UNCHANGED <<writerVars, recording, writerHist, readerHist>>
    /\ UNCHANGED <<flipHist, writer2Vars, reader2Vars, staleHist>>

\* Mutant: after a failed compare_exchange_weak, which has stored the word
\* it found into flagsNow, the exchange is tried again with the newFlags
\* computed from the word loaded before.
newSnap_cas_fail_stale ==
    /\ rpc = "newSnap_cas"
    /\ flags # rFlagsNow
    /\ rFlagsNow' = flags
    /\ rpc' = "newSnap_cas"
    /\ UNCHANGED <<flags, buffer, init, rOp, rIdx, rNewFlags, snapRet,
                   newSnapRet>>
    /\ UNCHANGED <<writerVars, recording, writerHist, readerHist>>
    /\ UNCHANGED <<flipHist, writer2Vars, reader2Vars, staleHist>>

\* newSnap(): compare_exchange_weak finds another word: it stores that word
\* into flagsNow, returns false, and the loop loads again
newSnap_cas_fail ==
    /\ rpc = "newSnap_cas"
    /\ flags # rFlagsNow
    /\ rFlagsNow' = flags
    /\ rpc' = "newSnap_load"
    /\ UNCHANGED <<flags, buffer, init, rOp, rIdx, rNewFlags, snapRet,
                   newSnapRet>>
    /\ UNCHANGED <<writerVars, recording, writerHist, readerHist>>
    /\ UNCHANGED <<flipHist, writer2Vars, reader2Vars, staleHist>>

\* newSnap(): compare_exchange_weak fails spuriously on the expected word
newSnap_cas_spurious ==
    /\ rpc = "newSnap_cas"
    /\ flags = rFlagsNow
    /\ rpc' = "newSnap_load"
    /\ UNCHANGED <<flags, buffer, init, rOp, rIdx, rFlagsNow, rNewFlags,
                   snapRet, newSnapRet>>
    /\ UNCHANGED <<writerVars, recording, writerHist, readerHist>>
    /\ UNCHANGED <<flipHist, writer2Vars, reader2Vars, staleHist>>

\* readLast(): the load of the snap() that follows newSnap()
snap_load ==
    /\ rpc = "snap_load"
    /\ SnapLoad
    /\ UNCHANGED <<flags, buffer, init, rOp>>
    /\ UNCHANGED <<rQuiet, rStartUpd>>
    /\ UNCHANGED <<writerVars, recording, writerHist>>
    /\ UNCHANGED <<flipHist, writer2Vars, reader2Vars, staleHist>>

\* snap(): return buffer[index], first word of the copy
snap_read1 ==
    /\ rpc = "snap_read1"
    /\ snapRet' = [snapRet EXCEPT ![1] = buffer[rIdx][1]]
    /\ snapStamp' = [snapStamp EXCEPT ![1] = stamp[rIdx][1]]
    /\ rpc' = "snap_read2"
    /\ UNCHANGED <<flags, buffer, init, rOp, rIdx, rFlagsNow, rNewFlags,
                   newSnapRet>>
    /\ UNCHANGED <<retSinceClaim, rQuiet, rStartUpd>>
    /\ UNCHANGED <<writerVars, recording, writerHist>>
    /\ UNCHANGED <<flipHist, writer2Vars, reader2Vars, staleHist>>

\* snap(): return buffer[index], second word of the copy; snap() returns
snap_read2 ==
    /\ rpc = "snap_read2"
    /\ snapRet' = [snapRet EXCEPT ![2] = buffer[rIdx][2]]
    /\ snapStamp' = [snapStamp EXCEPT ![2] = stamp[rIdx][2]]
    /\ retSinceClaim' = Rec(IF retSinceClaim = <<>>
                            THEN <<snapRet'>>
                            ELSE <<retSinceClaim[1], snapRet'>>,
                            retSinceClaim)
    /\ rIdx' = 0
    /\ rpc' = "idle"
    /\ UNCHANGED <<flags, buffer, init, rOp, rFlagsNow, rNewFlags, newSnapRet>>
    /\ UNCHANGED <<rQuiet, rStartUpd>>
    /\ UNCHANGED <<writerVars, recording, writerHist>>
    /\ retNo' = Rec(pubNo[rIdx], retNo)
    /\ retW' = Rec(stamp[rIdx][2], retW)
    /\ UNCHANGED <<flipSinceClaim, pubNo, wFails>>
    /\ UNCHANGED <<writer2Vars, reader2Vars, staleHist>>

\* ------------------------------------------- misuse: a second writer thread
\* The same code run by another thread, with its own locals.  The history
\* describes one writer and one reader and is not recorded under misuse.
\*
\* void write(const T newT), the load of the index
write2(v) ==
    /\ w2pc = "idle"
    /\ w2T' = v
    /\ w2Idx' = Shr(And(flags, 48), 4)
    /\ w2pc' = "write_store1"
    /\ UNCHANGED <<w2FlagsNow, w2NewFlags>>
    /\ UNCHANGED <<progVars, histVars, reader2Vars>>
    /\ UNCHANGED staleHist

\* write(): buffer[index] = newT, first word of the copy
write2_store1 ==
    /\ w2pc = "write_store1"
    /\ buffer' = [buffer EXCEPT ![w2Idx][1] = w2T]
    /\ w2pc' = "write_store2"
    /\ UNCHANGED <<w2T, w2Idx, w2FlagsNow, w2NewFlags>>
    /\ UNCHANGED <<flags, init, writerVars, readerVars, histVars, reader2Vars>>
    /\ UNCHANGED staleHist

\* write(): buffer[index] = newT, second word of the copy; write() returns
write2_store2 ==
    /\ w2pc = "write_store2"
    /\ buffer' = [buffer EXCEPT ![w2Idx][2] = w2T]
    /\ w2pc' = "idle"
    /\ w2Idx' = 0
    /\ UNCHANGED <<w2T, w2FlagsNow, w2NewFlags>>
    /\ UNCHANGED <<flags, init, writerVars, readerVars, histVars, reader2Vars>>
    /\ w2Stale' = FALSE
    /\ UNCHANGED wStale

\* flipWriter(): flagsNow = flags.load(consume);
\*               newFlags = newWriteSwapCleanWithDirty(flagsNow);
\* on entry and after a failed compare_exchange_weak
flipWriter2_load ==
    /\ w2pc \in {"idle", "flip_load"}
    /\ w2FlagsNow' = flags
    /\ w2NewFlags' = newWriteSwapCleanWithDirty(flags)
    /\ w2pc' = "flip_cas"
    /\ UNCHANGED <<w2T, w2Idx>>
    /\ UNCHANGED <<progVars, histVars, reader2Vars>>
    /\ UNCHANGED staleHist

\* flipWriter(): compare_exchange_weak(flagsNow, newFlags) succeeds
flipWriter2_cas_ok ==
    /\ w2pc = "flip_cas"
    /\ flags = w2FlagsNow
    /\ flags' = w2NewFlags
    /\ w2pc' = "idle"
    /\ w2FlagsNow' = 0
    /\ w2NewFlags' = 0
    /\ UNCHANGED <<w2T, w2Idx>>
    /\ UNCHANGED <<buffer, init, writerVars, readerVars, histVars, reader2Vars>>
    /\ wStale' = (wpc \in {"write_store1", "write_store2"})
    /\ UNCHANGED w2Stale

\* flipWriter(): compare_exchange_weak finds another word
flipWriter2_cas_fail ==
    /\ w2pc = "flip_cas"
    /\ flags # w2FlagsNow
    /\ w2FlagsNow' = flags
    /\ w2pc' = "flip_load"
    /\ UNCHANGED <<w2T, w2Idx, w2NewFlags>>
    /\ UNCHANGED <<progVars, histVars, reader2Vars>>
    /\ UNCHANGED staleHist

\* flipWriter(): compare_exchange_weak fails spuriously on the expected word
flipWriter2_cas_spurious ==
    /\ w2pc = "flip_cas"
    /\ flags = w2FlagsNow
    /\ w2pc' = "flip_load"
    /\ UNCHANGED <<w2T, w2Idx, w2FlagsNow, w2NewFlags>>
    /\ UNCHANGED <<progVars, histVars, reader2Vars>>
    /\ UNCHANGED staleHist

\* ------------------------------------------- misuse: a second reader thread
\* newSnap(): flagsNow = flags.load(consume);
\*            if (!isNewWrite(flagsNow)) return false;
\*            newFlags = swapSnapWithClean(flagsNow);
\* on entry and after a failed compare_exchange_weak
newSnap2_load ==
    /\ r2pc \in {"idle", "newSnap_load"}
    /\ IF ~isNewWrite(flags)
       THEN /\ r2pc' = "idle"
            /\ r2FlagsNow' = 0
            /\ r2NewFlags' = 0
       ELSE /\ r2FlagsNow' = flags
            /\ r2NewFlags' = swapSnapWithClean(flags)
            /\ r2pc' = "newSnap_cas"
    /\ r2Ret' = <<0, 0>>
    /\ UNCHANGED r2Idx
    /\ UNCHANGED <<progVars, histVars, writer2Vars>>
    /\ UNCHANGED staleHist

\* newSnap(): compare_exchange_weak(flagsNow, newFlags) succeeds; return true
newSnap2_cas_ok ==
    /\ r2pc = "newSnap_cas"
    /\ flags = r2FlagsNow
    /\ flags' = r2NewFlags
    /\ r2pc' = "idle"
    /\ r2FlagsNow' = 0
    /\ r2NewFlags' = 0
    /\ UNCHANGED <<r2Idx, r2Ret>>
    /\ UNCHANGED <<buffer, init, writerVars, readerVars, histVars, writer2Vars>>
    /\ UNCHANGED staleHist

\* newSnap(): compare_exchange_weak finds another word
newSnap2_cas_fail ==
    /\ r2pc = "newSnap_cas"
    /\ flags # r2FlagsNow
    /\ r2FlagsNow' = flags
    /\ r2pc' = "newSnap_load"
    /\ UNCHANGED <<r2Idx, r2NewFlags, r2Ret>>
    /\ UNCHANGED <<progVars, histVars, writer2Vars>>
    /\ UNCHANGED staleHist

\* newSnap(): compare_exchange_weak fails spuriously on the expected word
newSnap2_cas_spurious ==
    /\ r2pc = "newSnap_cas"
    /\ flags = r2FlagsNow
    /\ r2pc' = "newSnap_load"
    /\ UNCHANGED <<r2Idx, r2FlagsNow, r2NewFlags, r2Ret>>
    /\ UNCHANGED <<progVars, histVars, writer2Vars>>
    /\ UNCHANGED staleHist

\* snap(): flags.load(consume) & 0x3  -- the index of the snap slot
snap2 ==
    /\ r2pc = "idle"
    /\ r2Idx' = And(flags, 3)
    /\ r2pc' = "snap_read1"
    /\ r2Ret' = <<0, 0>>
    /\ UNCHANGED <<r2FlagsNow, r2NewFlags>>
    /\ UNCHANGED <<progVars, histVars, writer2Vars>>
    /\ UNCHANGED staleHist

\* snap(): return buffer[index], first word of the copy
snap2_read1 ==
    /\ r2pc = "snap_read1"
    /\ r2Ret' = [r2Ret EXCEPT ![1] = buffer[r2Idx][1]]
    /\ r2pc' = "snap_read2"
    /\ UNCHANGED <<r2Idx, r2FlagsNow, r2NewFlags>>
    /\ UNCHANGED <<progVars, histVars, writer2Vars>>
    /\ UNCHANGED staleHist

\* snap(): return buffer[index], second word of the copy; snap() returns
snap2_read2 ==
    /\ r2pc = "snap_read2"
    /\ r2Ret' = [r2Ret EXCEPT ![2] = buffer[r2Idx][2]]
    /\ r2Idx' = 0
    /\ r2pc' = "idle"
    /\ UNCHANGED <<r2FlagsNow, r2NewFlags>>
    /\ UNCHANGED <<progVars, histVars, writer2Vars>>
    /\ UNCHANGED staleHist

\* ---------------------------------------------------------- specifications
WriterRun ==
    \/ write_store1
    \/ write_store2
    \/ flipWriter_load
    \/ flipWriter_cas_ok
    \/ flipWriter_cas_fail
    \/ flipWriter_cas_spurious

ReaderRun ==
    \/ newSnap_load
    \/ newSnap_cas_ok
    \/ newSnap_cas_fail
    \/ newSnap_cas_spurious
    \/ snap_load
    \/ snap_read1
    \/ snap_read2

ReaderCall ==
    \/ snap
    \/ newSnap
    \/ readLast

\* One writer thread and one reader thread, every interleaving of their
\* steps; the history is recorded and the writer calls at most MaxCalls
\* times.
Next ==
    \/ \E v \in Values : write(v)
    \/ \E v \in Values : update(v)
    \/ flipWriter
    \/ WriterRun
    \/ ReaderCall
    \/ ReaderRun

Spec == Init /\ [][Next]_vars

\* The same threads with the history off, so that the writer may call for
\* ever.  The loops never read a T, so every T here is T() = 0.  Each
\* thread that is inside a call keeps taking steps, and a
\* compare_exchange_weak that is tried again and again on the expected word
\* does not fail spuriously for ever.
LiveInit == Construct(FALSE) /\ init = 0 /\ SingleThreads

LiveNext ==
    \/ write(0)
    \/ update(0)
    \/ flipWriter
    \/ WriterRun
    \/ ReaderCall
    \/ ReaderRun

\* Only the writer is scheduled fairly; the reader may do anything,
\* including stopping in the middle of a call.
WriterFairSpec ==
    /\ LiveInit
    /\ [][LiveNext]_vars
    /\ WF_vars(WriterRun)
    /\ ([]<><<flipWriter_cas_spurious>>_vars => []<><<flipWriter_cas_ok>>_vars)

\* Both threads are scheduled fairly.
LiveSpec ==
    /\ LiveInit
    /\ [][LiveNext]_vars
    /\ WF_vars(WriterRun)
    /\ WF_vars(ReaderRun)
    /\ ([]<><<flipWriter_cas_spurious>>_vars => []<><<flipWriter_cas_ok>>_vars)
    /\ ([]<><<newSnap_cas_spurious>>_vars => []<><<newSnap_cas_ok>>_vars)

\* Misuse: the two threads above and a second thread on one side, that calls
\* the writer-side or the reader-side operations at any time.  What misuse
\* does to the flag word and to the slots' roles does not depend on the
\* values written: every T is T() = 0, as in LiveNext.  update() and
\* readLast() are write() then flipWriter() and newSnap() then snap(): the
\* threads call the four operations themselves, in any order.
Write2Step ==
    \/ write2(0)
    \/ write2_store1
    \/ write2_store2

Flip2Step ==
    \/ flipWriter2_load
    \/ flipWriter2_cas_ok
    \/ flipWriter2_cas_fail
    \/ flipWriter2_cas_spurious

NewSnap2Step ==
    \/ newSnap2_load
    \/ newSnap2_cas_ok
    \/ newSnap2_cas_fail
    \/ newSnap2_cas_spurious

Snap2Step ==
    \/ snap2
    \/ snap2_read1
    \/ snap2_read2

\* The threads of Spec with a compare-exchange that fails only when it
\* finds another word than the expected one (compare_exchange_strong).
StrongCasNext ==
    \/ \E v \in Values : write(v)
    \/ \E v \in Values : update(v)
    \/ flipWriter
    \/ write_store1
    \/ write_store2
    \/ flipWriter_load
    \/ flipWriter_cas_ok
    \/ flipWriter_cas_fail
    \/ ReaderCall
    \/ newSnap_load
    \/ newSnap_cas_ok
    \/ newSnap_cas_fail
    \/ snap_load
    \/ snap_read1
    \/ snap_read2

StrongCasSpec == Init /\ [][StrongCasNext]_vars

\* flipWriter() alone, on any byte as the flag word: the transition it
\* performs as a function of the word it replaces.
FlipInit ==
    /\ \E f \in 0..(Width - 1) : Members(FALSE, f)
    /\ init = 0
    /\ SingleThreads

FlipNext ==
    \/ flipWriter
    \/ flipWriter_load
    \/ flipWriter_cas_ok
    \/ flipWriter_cas_spurious

FlipSpec == FlipInit /\ [][FlipNext]_vars

\* the writer and the reader of Spec calling write(), flipWriter(),
\* newSnap() and snap()
PrimitiveNext ==
    \/ write(0)
    \/ flipWriter
    \/ write_store1
    \/ write_store2
    \/ flipWriter_load
    \/ flipWriter_cas_ok
    \/ flipWriter_cas_fail
    \/ flipWriter_cas_spurious
    \/ snap
    \/ newSnap
    \/ newSnap_load
    \/ newSnap_cas_ok
    \/ newSnap_cas_fail
    \/ newSnap_cas_spurious
    \/ snap_read1
    \/ snap_read2

\* two writer threads and one reader thread
TwoWritersInit == Construct(FALSE) /\ init = 0 /\ Threads("idle", "off")

TwoWritersNext ==
    \/ PrimitiveNext
    \/ Write2Step
    \/ Flip2Step

TwoWritersSpec == TwoWritersInit /\ [][TwoWritersNext]_vars

\* two writer threads and one reader, or one writer and two reader threads
MisuseInit ==
    /\ Construct(FALSE)
    /\ init = 0
    /\ Threads("idle", "off") \/ Threads("off", "idle")

MisuseNext ==
    \/ PrimitiveNext
    \/ Write2Step
    \/ Flip2Step
    \/ NewSnap2Step
    \/ Snap2Step

MisuseSpec == MisuseInit /\ [][MisuseNext]_vars

\* ------------------------------------------------------------------ claims
\* the reader holds the value a snap() / readLast() call returned
SnapReturned == rpc = "idle" /\ rOp \in {"snap", "readLast"}

\* the writer is between the first and the last word of a copy into slot i
Storing(i) == wpc \in {"write_store1", "write_store2"} /\ wIdx = i

\* the reader is between the first and the last word of a copy out of slot i
Reading(i) == rpc \in {"snap_read1", "snap_read2"} /\ rIdx = i

\* write number k is the constructor's (0) or a write() that has returned
WriteComplete(k) ==
    \/ k = 0
    \/ k < wCalls
    \/ k = wCalls /\ wpc \notin {"write_store1", "write_store2"}

\* C1: in every reachable state the snap, clean and dirty fields of the flag
\* word are pairwise distinct and together are {0, 1, 2}.
C1_Partition ==
    /\ snapIndex(flags) # cleanIndex(flags)
    /\ snapIndex(flags) # dirtyIndex(flags)
    /\ cleanIndex(flags) # dirtyIndex(flags)
    /\ {snapIndex(flags), cleanIndex(flags), dirtyIndex(flags)} = {0, 1, 2}

\* a claim, then two more flips: every field has moved from where it started
C1_Witness ==
    /\ wCalls = MaxCalls
    /\ isNewWrite(flags)
    /\ snapIndex(flags) # 2
    /\ dirtyIndex(flags) # 0

\* C2: the writer is never in the middle of storing into a slot while the
\* reader is in the middle of reading the same slot.
C2_SlotExclusive == \A i \in Slots : ~(Storing(i) /\ Reading(i))

\* both copies are under way at once, after the snap slot has moved
C2_Witness ==
    /\ wpc = "write_store2"
    /\ rpc = "snap_read2"
    /\ rIdx # 2
    /\ wIdx # rIdx

\* C3: a snap() never reads a slot while a write() into it is in progress,
\* and the value it returns is the two words of one write() that has
\* returned (or of the constructor), never words of two writes.
C3_NoTornRead ==
    /\ \A i \in Slots : Reading(i) => ~Storing(i)
    /\ SnapReturned =>
        /\ snapRet[1] = snapRet[2]
        /\ snapStamp[1] = snapStamp[2]
        /\ WriteComplete(snapStamp[1])

\* a written value was returned while the writer is in the middle of a store
C3_Witness ==
    /\ SnapReturned
    /\ snapStamp[1] > 0
    /\ wpc = "write_store2"

\* C4: when the writer is idle after update(v1) .. update(vn) and stays
\* idle, readLast() (or newSnap() and then snap()) returns vn, the
\* argument of the last update, and so does every later snap().
C4_LatestValue ==
    (SnapReturned /\ rQuiet) =>
        /\ snapRet = <<newT, newT>>
        /\ snapStamp = <<wCalls, wCalls>>

\* MaxCalls updates, each publishing its own write, then the first read
C4_Witness ==
    /\ rpc = "idle"
    /\ rOp = "readLast"
    /\ rQuiet
    /\ wCalls = MaxCalls
    /\ published = 1..MaxCalls
    /\ snapStamp = <<MaxCalls, MaxCalls>>
    /\ Len(retSinceClaim) = 1

\* C5: all snap() calls since the last successful newSnap() (or since
\* construction) return the same value.
C5_SnapshotStable ==
    Len(retSinceClaim) = 2 => retSinceClaim[1] = retSinceClaim[2]

\* a second snap() returned after the writer published a different value
C5_Witness ==
    /\ rpc = "idle"
    /\ rOp = "snap"
    /\ Len(retSinceClaim) = 2
    /\ isNewWrite(flags)
    /\ buffer[cleanIndex(flags)] # snapRet
    /\ wCalls >= 2

\* C6: a newSnap() whose load finds newWrite = 0 returns false in that step
\* and leaves the flag word, the three slots and so the snap slot's value
\* as they were; it does not count as a claim.
C6_NoNewData ==
    [][((newSnap \/ readLast \/ newSnap_load) /\ ~isNewWrite(flags)) =>
          /\ ~newSnapRet'
          /\ rpc' = AfterNewSnap(rOp')
          /\ flags' = flags
          /\ buffer' = buffer
          /\ buffer'[snapIndex(flags')] = buffer[snapIndex(flags)]
          /\ retSinceClaim' = retSinceClaim]_vars

\* newSnap() returned false after an earlier claim, nothing published since
C6_Witness ==
    /\ rpc = "idle"
    /\ rOp = "newSnap"
    /\ ~newSnapRet
    /\ ~isNewWrite(flags)
    /\ snapIndex(flags) # 2
    /\ Len(retSinceClaim) >= 1

\* C7: after construction the flag word is 0x6 (dirty 0, clean 1, snap 2,
\* newWrite 0) and the three slots hold the initial value; until the first
\* successful flipWriter() the word stays so, snap() returns the initial
\* value and newSnap() returns false.
C7_InitialState ==
    /\ (wOp = "none" /\ rOp = "none") =>
           \A i \in Slots : buffer[i] = <<init, init>>
    /\ ~everFlipped =>
        /\ flags = 6
        /\ dirtyIndex(flags) = 0
        /\ cleanIndex(flags) = 1
        /\ snapIndex(flags) = 2
        /\ ~isNewWrite(flags)
        /\ buffer[1] = <<init, init>>
        /\ buffer[2] = <<init, init>>
        /\ SnapReturned => snapRet = <<init, init>>
        /\ (rpc = "idle" /\ rOp = "newSnap") => ~newSnapRet

\* readLast() returned before any flip, after a write() of another value
C7_Witness ==
    /\ ~everFlipped
    /\ rpc = "idle"
    /\ rOp = "readLast"
    /\ wOp = "write"
    /\ wpc = "idle"
    /\ buffer[0] # <<init, init>>

\* the value readLast() returned is the constructor's or one that a
\* successful flipWriter() had made clean
ReadLastPublished ==
    (rpc = "idle" /\ rOp = "readLast") =>
        /\ snapStamp[1] = snapStamp[2]
        /\ snapStamp[1] = 0 \/ snapStamp[1] \in published

\* C8 as stated: what readLast() returns was published before it returned
\* (or is the initial value) and is never older than the last write that
\* had been published by a flip when readLast() was invoked.
C8_FreshAsStated ==
    /\ ReadLastPublished
    /\ (rpc = "idle" /\ rOp = "readLast") => snapStamp[1] >= rStartUpd

\* C8 amended: the same, the age bound holding as long as the writer has
\* never flipped without a write() since its previous flip.
C8_Fresh ==
    /\ ReadLastPublished
    /\ (rpc = "idle" /\ rOp = "readLast" /\ ~bareFlip) =>
           snapStamp[1] >= rStartUpd

\* readLast() returned a value published after it was invoked
C8_Witness ==
    /\ rpc = "idle"
    /\ rOp = "readLast"
    /\ ~bareFlip
    /\ rStartUpd >= 1
    /\ snapStamp[1] > rStartUpd

\* the thread is inside the do-while loop of flipWriter() / newSnap()
InFlipWriter == wpc \in {"flip_load", "flip_cas"}
InNewSnap == rpc \in {"newSnap_load", "newSnap_cas"}

\* C9: with a fairly scheduled writer, every flipWriter() (alone or in
\* update()) eventually succeeds in its CAS and returns, whatever the
\* reader does.
C9_WriterProgress == InFlipWriter ~> (wpc = "idle")

\* the reader's claim made the writer's CAS fail: flipWriter() is back at
\* its load, and the word it was shown has newWrite cleared
C9_Witness ==
    /\ wpc = "flip_load"
    /\ wOp = "flipWriter"
    /\ wFlagsNow = flags
    /\ ~isNewWrite(flags)
    /\ wNewFlags # newWriteSwapCleanWithDirty(flags)

\* C10 as stated: with fair scheduling every newSnap() returns, however
\* many flipWriter() calls the writer performs meanwhile.
C10_ReaderProgressAsStated == InNewSnap ~> ~InNewSnap

\* C10 amended: newSnap() is lock-free, not wait-free: it fails to return
\* only if the writer's flipWriter() CAS succeeds again and again for ever.
C10_LockFree ==
    ([]<>(~InNewSnap)) \/ ([]<><<flipWriter_cas_ok>>_vars)

\* a flip made the reader's CAS fail: newSnap() is back at its load with a
\* newFlags computed from the word it had loaded before the flip
C10_Witness ==
    /\ rpc = "newSnap_load"
    /\ rFlagsNow = flags
    /\ isNewWrite(flags)
    /\ rNewFlags # swapSnapWithClean(flags)

\* C11: in every reachable state the newWrite bit is 1 exactly when some
\* flipWriter() CAS has succeeded since the last successful newSnap() CAS
\* (since construction when nothing has been claimed yet).
C11_NewWriteMeaning == isNewWrite(flags) <=> flipSinceClaim

\* two flips, then a claim that cleared the bit, the writer flipping again
C11_Witness ==
    /\ ~isNewWrite(flags)
    /\ ~flipSinceClaim
    /\ Cardinality(published) >= 2
    /\ snapIndex(flags) # 2
    /\ wpc = "flip_cas"

\* the three index fields of the word f name the three slots
Partitioned(f) == {snapIndex(f), cleanIndex(f), dirtyIndex(f)} = Slots

\* a CAS succeeds while another thread running the same side's operation is
\* between its own load and its own CAS
ContendedCas ==
    \/ flipWriter_cas_ok /\ w2pc = "flip_cas"
    \/ flipWriter2_cas_ok /\ wpc = "flip_cas"
    \/ newSnap_cas_ok /\ r2pc = "newSnap_cas"
    \/ newSnap2_cas_ok /\ rpc = "newSnap_cas"

\* C12 as stated, in the form a run can refute: with two threads on the
\* writer side or two on the reader side, the CAS that succeeds while the
\* other thread of that side is between its load and its CAS leaves a flag
\* word whose index fields are not a permutation of {0, 1, 2}.
C12_MisuseBreaksPartition == [][ContendedCas => ~Partitioned(flags')]_vars

\* C12 amended: with two threads on the writer side or two on the reader
\* side, the flag word and every word a thread is about to store in it
\* still have index fields that are a permutation of {0, 1, 2}.
C12_PartitionUnderMisuse ==
    /\ Partitioned(flags)
    /\ wpc = "flip_cas" => Partitioned(wNewFlags)
    /\ w2pc = "flip_cas" => Partitioned(w2NewFlags)
    /\ rpc = "newSnap_cas" => Partitioned(rNewFlags)
    /\ r2pc = "newSnap_cas" => Partitioned(r2NewFlags)

\* two reader threads have loaded the same word and are both about to
\* exchange it
C12_Witness ==
    /\ rpc = "newSnap_cas"
    /\ r2pc = "newSnap_cas"
    /\ rFlagsNow = flags
    /\ r2FlagsNow = flags
    /\ snapIndex(flags) # 2

\* the word with newWrite = 1, the clean and dirty fields of f exchanged,
\* the snap field of f, and bit 7 = 0
FlipReference(f) ==
    64 + 16 * cleanIndex(f) + 4 * dirtyIndex(f) + snapIndex(f)

\* C13: the update a successful flipWriter() CAS performs maps the word it
\* replaces, whatever its bits, to the word with newWrite = 1, clean = old
\* dirty, dirty = old clean, snap = old snap and bit 7 = 0.
C13_FlipTransition ==
    [][flipWriter_cas_ok =>
          /\ flags' = FlipReference(flags)
          /\ isNewWrite(flags')
          /\ cleanIndex(flags') = dirtyIndex(flags)
          /\ dirtyIndex(flags') = cleanIndex(flags)
          /\ snapIndex(flags') = snapIndex(flags)
          /\ Bit(flags', 128) = 0]_vars

\* the flip of 0xB9 (bit 7 set, newWrite 0, dirty 3, clean 2, snap 1) is
\* about to store 0x6D
C13_Witness ==
    /\ wpc = "flip_cas"
    /\ flags = 185
    /\ wFlagsNow = 185
    /\ wNewFlags = 109

\* a step of newSnap(), alone or in readLast()
NewSnapStep ==
    \/ newSnap
    \/ readLast
    \/ newSnap_load
    \/ newSnap_cas_ok
    \/ newSnap_cas_fail
    \/ newSnap_cas_spurious

\* C14: newSnap() returns true exactly when the step in which it returns is
\* its successful CAS; that CAS acts on a word with newWrite = 1 and stores
\* the word with snap = old clean, clean = old snap, dirty = old dirty and
\* newWrite = 0, old being the word in `flags` at that step; no other step
\* of newSnap() changes the word.
C14_NewSnapTransition ==
    [][/\ (NewSnapStep /\ rpc' = AfterNewSnap(rOp')) =>
              (newSnapRet' <=> newSnap_cas_ok)
       /\ newSnap_cas_ok =>
              /\ isNewWrite(flags)
              /\ snapIndex(flags') = cleanIndex(flags)
              /\ cleanIndex(flags') = snapIndex(flags)
              /\ dirtyIndex(flags') = dirtyIndex(flags)
              /\ ~isNewWrite(flags')
              /\ rpc' = AfterNewSnap(rOp')
       /\ (NewSnapStep /\ ~newSnap_cas_ok) => flags' = flags]_vars

\* newSnap() returned true: it claimed the slot the last of MaxCalls flips
\* published
C14_Witness ==
    /\ rpc = "idle"
    /\ rOp = "newSnap"
    /\ newSnapRet
    /\ ~isNewWrite(flags)
    /\ wCalls = MaxCalls
    /\ Cardinality(published) = MaxCalls
    /\ pubNo[snapIndex(flags)] = MaxCalls

\* C15: with one writer and one reader, the dirty index changes only in a
\* successful flipWriter() CAS and the snap index only in a successful
\* newSnap() CAS; so each word write() stores goes to the slot that is
\* dirty at that step, and each word snap() reads comes from the slot that
\* is the snap slot at that step.
C15_IndexOwnership ==
    [][/\ dirtyIndex(flags') # dirtyIndex(flags) => flipWriter_cas_ok
       /\ snapIndex(flags') # snapIndex(flags) => newSnap_cas_ok
       /\ (write_store1 \/ write_store2) => wIdx = dirtyIndex(flags)
       /\ (snap_read1 \/ snap_read2) => rIdx = snapIndex(flags)]_vars

\* a store and a read are both at their second word after the dirty and
\* the snap index have both moved from their initial slots
C15_Witness ==
    /\ wpc = "write_store2"
    /\ rpc = "snap_read2"
    /\ dirtyIndex(flags) # 0
    /\ snapIndex(flags) # 2
    /\ wIdx = dirtyIndex(flags)
    /\ rIdx = snapIndex(flags)
    /\ flipSinceClaim

\* a step of write(), alone or in update()
WriteStep ==
    \/ \E v \in Values : write(v) \/ update(v)
    \/ write_store1
    \/ write_store2

\* C16: write(v) leaves the flag word and the clean and snap slots as they
\* are and stores v in the dirty slot; and what snap() / readLast() returns
\* is the constructor's value or the words of a write that a successful
\* flipWriter() had published when the read ended, never those of a write
\* not yet followed by a successful flip.
C16_UnpublishedInvisible ==
    [][/\ WriteStep =>
              /\ flags' = flags
              /\ buffer'[cleanIndex(flags)] = buffer[cleanIndex(flags)]
              /\ buffer'[snapIndex(flags)] = buffer[snapIndex(flags)]
       /\ write_store2 => buffer'[dirtyIndex(flags)] = <<newT, newT>>
       /\ snap_read2 =>
              \A k \in {1, 2} : snapStamp'[k] = 0 \/ snapStamp'[k] \in published
      ]_vars

\* readLast() returned the value of the first call, an update(), while the
\* dirty slot holds the value of a third call: two write()s since the flip
C16_Witness ==
    /\ rpc = "idle"
    /\ rOp = "readLast"
    /\ snapStamp = <<1, 1>>
    /\ published = {1}
    /\ wpc = "idle"
    /\ wOp = "write"
    /\ stamp[dirtyIndex(flags)] = <<3, 3>>

\* slot i holds, whole, the last write that a successful flip published
\* (the constructor's value when there is none)
HoldsLatest(i) == stamp[i] = <<lastUpd, lastUpd>>

\* slot i holds, whole, an older published write or the constructor's value
HoldsOlder(i) ==
    /\ stamp[i][1] = stamp[i][2]
    /\ stamp[i][1] = 0 \/ (stamp[i][1] < lastUpd /\ stamp[i][1] \in published)

\* where the latest published value is
LatestLocated ==
    IF isNewWrite(flags)
    THEN HoldsLatest(cleanIndex(flags))
    ELSE HoldsLatest(snapIndex(flags)) /\ HoldsOlder(cleanIndex(flags))

\* C17 as stated: in every reachable state, with newWrite = 1 the clean
\* slot holds the value of the most recent write() followed by a successful
\* flipWriter(); with newWrite = 0 the snap slot holds it (the initial value
\* if no flip has succeeded) and the clean slot an older or initial value.
C17_LatestAsStated == LatestLocated

\* C17 amended: the same, as long as the writer has never flipped without a
\* write() since its previous flip.
C17_LatestLocation == ~bareFlip => LatestLocated

\* the second published value has been claimed and the first, claimed
\* before, is in the clean slot
C17_Witness ==
    /\ ~bareFlip
    /\ ~isNewWrite(flags)
    /\ lastUpd >= 2
    /\ HoldsLatest(snapIndex(flags))
    /\ stamp[cleanIndex(flags)][1] >= 1

C19_WriterRetryBound == wFails <= 1

\* the first CAS of a flipWriter() failed on the reader's claim, and the
\* second is about to find the word it has loaded
C19_Witness ==
    /\ wFails = 1
    /\ wpc = "flip_cas"
    /\ wFlagsNow = flags
    /\ ~isNewWrite(flags)
    /\ ~flipSinceClaim

\* the second writer thread is between the first and the last word of a
\* copy into slot i
Storing2(i) == w2pc \in {"write_store1", "write_store2"} /\ w2Idx = i

\* C20: with two writer threads and one reader, a writer is in the middle
\* of a store into the reader's snap slot, or into the slot a snap() is
\* reading, only when the other writer's flipWriter() has succeeded since
\* it loaded its index; and such a state is reachable (the witness).
C20_StaleWriterOnly ==
    \A i \in Slots :
        /\ (Storing(i) /\ (i = snapIndex(flags) \/ Reading(i))) => wStale
        /\ (Storing2(i) /\ (i = snapIndex(flags) \/ Reading(i))) => w2Stale

\* the first writer is at the second word of a store into the slot that has
\* become the snap slot, and snap() is at the second word of its read of it
C20_Witness ==
    /\ wpc = "write_store2"
    /\ rpc = "snap_read2"
    /\ wIdx = rIdx
    /\ rIdx = snapIndex(flags)
    /\ wStale
    /\ w2pc = "idle"

====
